---- MODULE Spec2Model ----
(***************************************************************************)
(* A model of the REST backend of src/src/routes/admin.js (the admin,      *)
(* reviews, blog and contact routers), src/unnamed/part_000 (the pool) and *)
(* src/database_schema.sql (the tables).                                   *)
(*                                                                         *)
(* A handler is a sequence of steps, one per await: the synchronous code   *)
(* up to the first await is the handler's Start action, and every SQL      *)
(* statement and every mail delivery is a step of its own, so that the     *)
(* requests in flight interleave at the awaits, as they do on the event    *)
(* loop.  Strings that the code parses or matches (ids, page, limit,       *)
(* rating, email) are sequences of one-character strings.                  *)
(***************************************************************************)
EXTENDS Integers, Sequences, FiniteSets, Bags, TLC

VARIABLES
  contacts,     \* table contacts: a set of rows
  reviews,      \* table reviews: a set of rows
  blog_posts,   \* table blog_posts: a set of rows
  admins,       \* table admins: a set of rows (never written by the API)
  nextId,       \* AUTO_INCREMENT counters, one per table
  now,          \* the clock, in hours: NOW() and the JWT clock
  tokens,       \* the tokens login has issued (what a client can present)
  smtp,         \* process.env.SMTP_USER && process.env.CONTACT_EMAIL
  jwtEnv,       \* process.env.JWT_SECRET, "" when the variable is not set
  failures,     \* how many login attempts have been answered 401 so far
  hits,         \* per post id, how many fetches by slug ran their UPDATE
  inflight,     \* the bag of requests whose handler is suspended at an await
  last          \* the request answered last, with its response

vars == <<contacts, reviews, blog_posts, admins, nextId, now, tokens, smtp,
          jwtEnv, failures, hits, inflight, last>>

\* the tables
store == <<contacts, reviews, blog_posts, nextId>>

\* what no handler of a table changes
env == <<admins, now, tokens, smtp, jwtEnv, failures, hits>>

-----------------------------------------------------------------------------
(* Bounds of the model.                                                    *)

MaxInflight == 2     \* requests suspended at the same time
MaxRows == 2         \* rows ever inserted into one table by the API
MaxFailures == 2     \* failed logins counted
MaxClock == 2        \* hours the clock advances

-----------------------------------------------------------------------------
(* JavaScript values.                                                      *)

\* req.body.x / req.query.x that was not sent
Undef == <<"undefined">>

\* !x for a string or an absent value
Falsy(s) == s = <<>> \/ s = Undef

\* the JSON array [s] of one string
ArrayOf(s) == <<"array">> \o s

IsArray(x) == x # <<>> /\ Head(x) = "array"

\* String(x), the conversion RegExp.prototype.test applies to its argument:
\* an array becomes its elements joined by commas
StringOf(x) == IF IsArray(x) THEN Tail(x) ELSE x

\* the parameter mysql2 binds: JSON.stringify(x) for an array
Bound(x) == IF IsArray(x) THEN <<"[", "\"">> \o Tail(x) \o <<"\"", "]">> ELSE x

NaN == [nan |-> TRUE, val |-> 0]

Num(n) == [nan |-> FALSE, val |-> n]

DecVal == ("0" :> 0) @@ ("1" :> 1) @@ ("2" :> 2) @@ ("3" :> 3) @@ ("4" :> 4) @@
          ("5" :> 5) @@ ("6" :> 6) @@ ("7" :> 7) @@ ("8" :> 8) @@ ("9" :> 9)

HexVal == DecVal @@ ("a" :> 10) @@ ("b" :> 11) @@ ("c" :> 12) @@ ("d" :> 13) @@
          ("e" :> 14) @@ ("f" :> 15)

RECURSIVE SkipSpace(_)
SkipSpace(s) == IF s # <<>> /\ Head(s) = " " THEN SkipSpace(Tail(s)) ELSE s

RECURSIVE DigitsPrefix(_, _)
DigitsPrefix(s, vals) ==
  IF s # <<>> /\ Head(s) \in DOMAIN vals
  THEN <<Head(s)>> \o DigitsPrefix(Tail(s), vals)
  ELSE <<>>

RECURSIVE DigitsValue(_, _, _, _)
DigitsValue(ds, vals, radix, acc) ==
  IF ds = <<>> THEN acc
  ELSE DigitsValue(Tail(ds), vals, radix, acc * radix + vals[Head(ds)])

\* parseInt(x): leading blanks, a sign, 0x, then the longest prefix of digits
parseInt(s) ==
  LET t == SkipSpace(s)
      neg == t # <<>> /\ Head(t) = "-"
      u == IF t # <<>> /\ Head(t) \in {"-", "+"} THEN Tail(t) ELSE t
      hex == Len(u) >= 2 /\ u[1] = "0" /\ u[2] \in {"x", "X"}
      v == IF hex THEN Tail(Tail(u)) ELSE u
      vals == IF hex THEN HexVal ELSE DecVal
      ds == DigitsPrefix(v, vals)
      m == DigitsValue(ds, vals, IF hex THEN 16 ELSE 10, 0)
  IN IF ds = <<>> THEN NaN ELSE Num(IF neg THEN 0 - m ELSE m)

RECURSIVE TrimRight(_)
TrimRight(s) ==
  IF s # <<>> /\ s[Len(s)] = " " THEN TrimRight(SubSeq(s, 1, Len(s) - 1)) ELSE s

\* Number(x) for the strings without "." and exponent: the whole string must
\* be a numeral; the empty string is 0
Number(s) ==
  LET t == TrimRight(SkipSpace(s))
      neg == t # <<>> /\ Head(t) = "-"
      u == IF t # <<>> /\ Head(t) \in {"-", "+"} THEN Tail(t) ELSE t
      hex == Len(t) >= 2 /\ t[1] = "0" /\ t[2] \in {"x", "X"}
      v == IF hex THEN Tail(Tail(t)) ELSE u
      vals == IF hex THEN HexVal ELSE DecVal
      ds == DigitsPrefix(v, vals)
      m == DigitsValue(ds, vals, IF hex THEN 16 ELSE 10, 0)
  IN IF t = <<>> THEN Num(0)
     ELSE IF ds = <<>> \/ ds # v THEN NaN
     ELSE Num(IF neg /\ ~hex THEN 0 - m ELSE m)

\* x || d for a number x
OrDefault(p, d) == IF p.nan \/ p.val = 0 THEN d ELSE p.val

\* /^[^\s@]+@[^\s@]+\.[^\s@]+$/.test(s)
emailRegex(s) ==
  LET plain(i, j) == i <= j /\ \A k \in i..j : s[k] \notin {" ", "@"}
  IN s # Undef /\
     \E i \in 1..Len(s) : \E j \in 1..Len(s) :
        /\ s[i] = "@"
        /\ s[j] = "."
        /\ plain(1, i - 1)
        /\ plain(i + 1, j - 1)
        /\ plain(j + 1, Len(s))

\* Math.ceil(a / b) for a >= 0, b > 0
Ceil(a, b) == (a + b - 1) \div b

-----------------------------------------------------------------------------
(* Tokens.                                                                 *)

\* process.env.JWT_SECRET || 'fallback-secret'
JWT_SECRET == IF jwtEnv = "" THEN "fallback-secret" ELSE jwtEnv

\* expiresIn: '24h'
TokenTTL == 24

\* no Authorization header
NoToken == [secret |-> "", exp |-> 0, id |-> 0, username |-> "", email |-> "",
            name |-> ""]

\* a token signed with another secret
Forged == [secret |-> "other", exp |-> TokenTTL, id |-> 1, username |-> "admin",
           email |-> "admin@asistecare.com", name |-> "Administrador"]

\* a token login issued more than 24 hours ago
Expired == [Forged EXCEPT !.secret = JWT_SECRET, !.exp = 0]

\* a token login issued at hour 0
Fresh == [Forged EXCEPT !.secret = JWT_SECRET]

\* what a client may send in the Authorization header
Presentable == {NoToken, Forged} \cup tokens

\* jwt.verify(token, secret)
JwtVerify(t) == t.secret = JWT_SECRET /\ now < t.exp

\* the status authenticateToken answers, 0 when it calls next()
authenticateToken(t) ==
  IF t = NoToken THEN 401
  ELSE IF ~JwtVerify(t) THEN 403
  ELSE 0

\* the routers mount the middleware on these routes only
Protected == {"admin.contacts.list", "admin.contacts.delete", "admin.reviews.list",
              "admin.reviews.approve", "admin.reviews.delete",
              "blog.admin.get", "blog.create", "blog.update", "blog.delete"}

\* what the route's middleware chain answers before the handler runs
Gate(route, t) == IF route \in Protected THEN authenticateToken(t) ELSE 0

\* req.user of a request no middleware decoded a token for
NoUser == [id |-> 0, username |-> "", email |-> "", name |-> ""]

\* req.user = user: the payload jwt.verify decoded
Decoded(t) == [id |-> t.id, username |-> t.username, email |-> t.email,
               name |-> t.name]

\* req.user when the handler runs
User(route, t) ==
  IF route \in Protected /\ authenticateToken(t) = 0 THEN Decoded(t) ELSE NoUser

-----------------------------------------------------------------------------
(* Requests.                                                               *)

NoQuery == [page |-> Undef, limit |-> Undef, status |-> "none"]

NoBody == [none |-> TRUE]

NewReq(route, token, idp, q, body) ==
  [route |-> route, pc |-> "start", token |-> token, idp |-> idp, q |-> q,
   body |-> body, arg |-> 0, page |-> 0, limit |-> 0, rows |-> <<>>, n |-> 0,
   status |-> 0, wrote |-> FALSE, clash |-> FALSE, own |-> FALSE, seen |-> {},
   stable |-> FALSE, mail |-> "none", issued |-> NoToken,
   user |-> User(route, token), held |-> FALSE]

NoReq == NewReq("none", NoToken, Undef, NoQuery, NoBody)

InFlight == BagToSet(inflight)

Room == BagCardinality(inflight) < MaxInflight

\* the handler suspends at an await
Enter(r) ==
  /\ Room
  /\ inflight' = inflight (+) SetToBag({[r EXCEPT !.held = TRUE]})
  /\ UNCHANGED last

\* the handler answers before its first await
Reply(r, st) ==
  /\ last' = [r EXCEPT !.pc = "done", !.status = st]
  /\ UNCHANGED inflight

\* the handler resumes and suspends again
Advance(r, r2) ==
  /\ inflight' = (inflight (-) SetToBag({r})) (+) SetToBag({r2})
  /\ UNCHANGED last

\* the handler resumes and answers
Finish(r, r2, st) ==
  /\ inflight' = inflight (-) SetToBag({r})
  /\ last' = [r2 EXCEPT !.pc = "done", !.status = st, !.held = FALSE]

\* a statement throws: the handler's catch answers 500 and neither ends nor
\* releases the connection
Caught(r, r2) ==
  /\ inflight' = inflight (-) SetToBag({r})
  /\ last' = [r2 EXCEPT !.pc = "done", !.status = 500]

\* SELECT * FROM table WHERE id = ?
SelectById(table, id) ==
  LET hit == {x \in table : x.id = id}
  IN IF hit = {} THEN <<>> ELSE <<CHOOSE x \in hit : TRUE>>

\* the requests of this route suspended at one of these pcs
Pending(route, pcs) ==
  LET S == {r \in InFlight : r.route = route /\ r.pc \in pcs}
  IN BagCardinality([r \in S |-> inflight[r]])

\* the table has room for the rows of one more create
CreatesLeft(table, route) ==
  nextId[table] + Pending(route, {"check", "insert"}) <= MaxRows

Max(a, b) == IF a >= b THEN a ELSE b

Min(a, b) == IF a <= b THEN a ELSE b

\* the orders ORDER BY createdAt DESC may return the rows S in (rows with
\* the same createdAt come in any order)
OrderedDesc(S) ==
  {ord \in [1..Cardinality(S) -> S] :
     /\ \A i, j \in 1..Cardinality(S) : i # j => ord[i] # ord[j]
     /\ \A i, j \in 1..Cardinality(S) : i < j => ord[i].createdAt >= ord[j].createdAt}

-----------------------------------------------------------------------------
(* Reviews: POST /api/reviews.                                             *)

MinRating == 1
MaxRating == 5
MinComment == 10
MaxComment == 1000

\* the status the validation of POST /api/reviews answers, 0 when it passes
ReviewValidation(body) ==
  LET ratingNum == parseInt(body.rating)
  IN IF body.name = "" \/ Falsy(body.email) \/ Falsy(body.rating) \/ body.comment = 0
       THEN 400
     ELSE IF ~emailRegex(body.email) THEN 400
     ELSE IF ratingNum.nan \/ ratingNum.val < MinRating \/ ratingNum.val > MaxRating
       THEN 400
     ELSE IF body.comment < MinComment THEN 400
     ELSE IF body.comment > MaxComment THEN 400
     ELSE 0

ReviewCreateStart(body) ==
  LET r == NewReq("reviews.create", NoToken, Undef, NoQuery, body)
      st == ReviewValidation(body)
  IN /\ CreatesLeft("reviews", "reviews.create")
     /\ IF st # 0 THEN Reply(r, st)
        ELSE Enter([r EXCEPT !.pc = "insert", !.arg = parseInt(body.rating).val])
     /\ UNCHANGED <<store, env>>

\* the row INSERT INTO reviews writes
ReviewRow(r, id) ==
  [id |-> id, name |-> r.body.name, email |-> r.body.email, rating |-> r.arg,
   comment |-> r.body.comment, approved |-> FALSE, createdAt |-> now,
   updatedAt |-> now]

\* INSERT INTO reviews, then the mail is sent or skipped
ReviewInsert(r) ==
  /\ r.route = "reviews.create" /\ r.pc = "insert"
  /\ LET id == nextId.reviews
         r2 == [r EXCEPT !.n = id, !.wrote = TRUE, !.held = FALSE]
     IN /\ reviews' = reviews \cup {ReviewRow(r, id)}
        /\ nextId' = [nextId EXCEPT !.reviews = id + 1]
        /\ IF smtp THEN Advance(r, [r2 EXCEPT !.pc = "mail"])
           ELSE Finish(r, [r2 EXCEPT !.mail = "skipped"], 201)
  /\ UNCHANGED <<contacts, blog_posts, env>>

\* await transporter.sendMail(...) resolves
SendMailResolves(r) ==
  /\ r.pc = "mail"
  /\ Finish(r, [r EXCEPT !.mail = "sent"], 201)
  /\ UNCHANGED <<store, env>>

\* (mutant) the mail error reaches the handler's outer catch
SendMailRejectsUncaught(r) ==
  /\ r.pc = "mail"
  /\ Finish(r, [r EXCEPT !.mail = "failed"], 500)
  /\ UNCHANGED <<store, env>>

\* await transporter.sendMail(...) rejects: the catch logs it
SendMailRejects(r) ==
  /\ r.pc = "mail"
  /\ Finish(r, [r EXCEPT !.mail = "failed"], 201)
  /\ UNCHANGED <<store, env>>

-----------------------------------------------------------------------------
(* Contacts: POST /api/contact.                                            *)

PostalCodeLen == 5

\* /^\d{5}$/.test(s)
postalCodeRegex(s) ==
  s # Undef /\ Len(s) = PostalCodeLen /\ \A k \in 1..Len(s) : s[k] \in DOMAIN DecVal

\* the status the validation of POST /api/contact answers, 0 when it passes
ContactValidation(body) ==
  IF body.name = "" \/ body.phone = "" \/ Falsy(body.email) \/ Falsy(body.postalCode)
    THEN 400
  ELSE IF ~emailRegex(StringOf(body.email)) THEN 400
  ELSE IF ~postalCodeRegex(StringOf(body.postalCode)) THEN 400
  ELSE 0

ContactCreateStart(body) ==
  LET r == NewReq("contact.create", NoToken, Undef, NoQuery, body)
      st == ContactValidation(body)
  IN /\ CreatesLeft("contacts", "contact.create")
     /\ IF st # 0 THEN Reply(r, st)
        ELSE Enter([r EXCEPT !.pc = "insert"])
     /\ UNCHANGED <<store, env>>

\* the row INSERT INTO contacts writes
ContactRow(r, id) ==
  [id |-> id, name |-> r.body.name, phone |-> r.body.phone,
   email |-> Bound(r.body.email), postalCode |-> Bound(r.body.postalCode),
   createdAt |-> now]

\* INSERT INTO contacts, then the mail is sent or skipped
ContactInsert(r) ==
  /\ r.route = "contact.create" /\ r.pc = "insert"
  /\ LET id == nextId.contacts
         r2 == [r EXCEPT !.n = id, !.wrote = TRUE, !.held = FALSE]
     IN /\ contacts' = contacts \cup {ContactRow(r, id)}
        /\ nextId' = [nextId EXCEPT !.contacts = id + 1]
        /\ IF smtp THEN Advance(r, [r2 EXCEPT !.pc = "mail"])
           ELSE Finish(r, [r2 EXCEPT !.mail = "skipped"], 201)
  /\ UNCHANGED <<reviews, blog_posts, env>>

-----------------------------------------------------------------------------
(* Reviews: approve and delete, under /api/admin and under /api/reviews.   *)

ApproveRoutes == {"admin.reviews.approve", "reviews.approve"}

ReviewApproveStart(route, tok, idp) ==
  LET r == NewReq(route, tok, idp, NoQuery, NoBody)
      gate == Gate(route, tok)
      reviewId == parseInt(idp)
  IN /\ IF gate # 0 THEN Reply(r, gate)
        ELSE IF reviewId.nan THEN Reply(r, 400)
        ELSE Enter([r EXCEPT !.pc = "update", !.arg = reviewId.val])
     /\ UNCHANGED <<store, env>>

\* PUT /api/admin/reviews/:id/approve
AdminReviewApprove(tok, idp) == ReviewApproveStart("admin.reviews.approve", tok, idp)

\* PUT /api/reviews/:id/approve
ReviewsApprove(tok, idp) == ReviewApproveStart("reviews.approve", tok, idp)

\* (mutant) SET approved = 1, createdAt = NOW(), updatedAt = NOW()
ApprovedRowRestamped(x) ==
  [x EXCEPT !.approved = TRUE, !.createdAt = now, !.updatedAt = now]

\* (mutant) SET approved = NOT approved
ApprovedRowToggled(x) == [x EXCEPT !.approved = ~x.approved, !.updatedAt = now]

\* UPDATE reviews SET approved = 1, updatedAt = NOW() WHERE id = ?
ApprovedRow(x) == [x EXCEPT !.approved = TRUE, !.updatedAt = now]

ReviewApproveUpdate(r) ==
  /\ r.route \in ApproveRoutes /\ r.pc = "update"
  /\ LET hit == {x \in reviews : x.id = r.arg}
     IN /\ reviews' = (reviews \ hit) \cup {ApprovedRow(x) : x \in hit}
        /\ IF hit = {} THEN Finish(r, r, 404)
           ELSE Advance(r, [r EXCEPT !.pc = "select", !.wrote = TRUE])
  /\ UNCHANGED <<contacts, blog_posts, nextId, env>>

\* SELECT * FROM reviews WHERE id = ?, then res.json({review: rows[0]})
ReviewApproveSelect(r) ==
  /\ r.route \in ApproveRoutes /\ r.pc = "select"
  /\ Finish(r, [r EXCEPT !.rows = SelectById(reviews, r.arg)], 200)
  /\ UNCHANGED <<store, env>>

\* (mutant) DELETE /api/contact/:id deletes FROM reviews
DeleteTableCrossed ==
  [r \in {"admin.reviews.delete", "reviews.delete", "admin.contacts.delete",
          "contact.delete", "blog.delete"} |->
    IF r \in {"admin.reviews.delete", "reviews.delete", "contact.delete"} THEN "reviews"
    ELSE IF r = "blog.delete" THEN "blog_posts" ELSE "contacts"]

\* the table a delete route deletes from
DeleteTable == [r \in {"admin.reviews.delete", "reviews.delete", "admin.contacts.delete",
                       "contact.delete", "blog.delete"} |->
                 IF r \in {"admin.reviews.delete", "reviews.delete"} THEN "reviews"
                 ELSE IF r = "blog.delete" THEN "blog_posts" ELSE "contacts"]

DeleteStart(route, tok, idp) ==
  LET r == NewReq(route, tok, idp, NoQuery, NoBody)
      gate == Gate(route, tok)
      id == parseInt(idp)
  IN /\ IF gate # 0 THEN Reply(r, gate)
        ELSE IF id.nan THEN Reply(r, 400)
        ELSE Enter([r EXCEPT !.pc = "delete", !.arg = id.val])
     /\ UNCHANGED <<store, env>>

\* DELETE /api/admin/reviews/:id
AdminReviewDelete(tok, idp) == DeleteStart("admin.reviews.delete", tok, idp)

\* DELETE /api/reviews/:id
ReviewsDelete(tok, idp) == DeleteStart("reviews.delete", tok, idp)

\* DELETE FROM table WHERE id = ?, then 404 when affectedRows = 0
DeleteExec(r) ==
  /\ r.route \in DOMAIN DeleteTable /\ r.pc = "delete"
  /\ LET t == DeleteTable[r.route]
         hit(table) == {x \in table : x.id = r.arg}
         some == IF t = "reviews" THEN hit(reviews) # {}
                 ELSE IF t = "contacts" THEN hit(contacts) # {}
                 ELSE hit(blog_posts) # {}
     IN /\ reviews' = IF t = "reviews" THEN reviews \ hit(reviews) ELSE reviews
        /\ contacts' = IF t = "contacts" THEN contacts \ hit(contacts) ELSE contacts
        /\ blog_posts' = IF t = "blog_posts" THEN blog_posts \ hit(blog_posts)
                         ELSE blog_posts
        /\ IF some THEN Finish(r, [r EXCEPT !.wrote = TRUE], 200)
           ELSE Finish(r, r, 404)
  /\ UNCHANGED <<nextId, env>>

\* a statement throws (the connection fails, the server rejects the query):
\* the handler's catch answers 500
StorePcs == {"insert", "update", "select", "delete", "rows", "count", "check",
             "lookup", "views", "related"}

StoreFail(r) ==
  /\ r.pc \in StorePcs
  /\ Caught(r, r)
  /\ UNCHANGED <<store, env>>

-----------------------------------------------------------------------------
(* Blog: POST /api/blog, PUT /api/blog/:id, DELETE /api/blog/:id.          *)

WordsPerMinute == 200

RelatedLimit == 3

\* a column that holds NULL
NULL == "NULL"

\* a body field that was not sent, where the code tells it from ""
Unsent == "undefined"

\* x ? 1 : 0 for the published and featured of a body
Truthy(b) == b = "true"

\* content.replace(/<[^>]*>/g, '')
RECURSIVE StripTags(_)
StripTags(s) ==
  IF s = <<>> THEN <<>>
  ELSE IF Head(s) = "<" /\ \E k \in 2..Len(s) : s[k] = ">"
    THEN LET k == CHOOSE k \in 2..Len(s) :
                     s[k] = ">" /\ \A j \in 2..(k - 1) : s[j] # ">"
         IN StripTags(SubSeq(s, k + 1, Len(s)))
  ELSE <<Head(s)>> \o StripTags(Tail(s))

\* s.split(/\s+/).length: one more than the number of runs of blanks
Pieces(s) ==
  1 + Cardinality({k \in 1..Len(s) : s[k] = " " /\ (k = 1 \/ s[k - 1] # " ")})

\* Math.max(1, Math.ceil(wordCount / 200))
ReadTime(content) == Max(1, Ceil(Pieces(StripTags(content)), WordsPerMinute))

\* (mutant) the table has no UNIQUE key on slug
DuplicateSlugUnchecked(slug, exceptId) == FALSE

\* slug VARCHAR(500) UNIQUE: writing this slug to the row exceptId (0: a new
\* row) raises ER_DUP_ENTRY
DuplicateSlug(slug, exceptId) ==
  \E x \in blog_posts : x.slug = slug /\ x.id # exceptId

BlogCreateStart(tok, body) ==
  LET r == NewReq("blog.create", tok, Undef, NoQuery, body)
      gate == Gate("blog.create", tok)
  IN /\ CreatesLeft("blog_posts", "blog.create")
     /\ IF gate # 0 THEN Reply(r, gate)
        ELSE IF body.title = "" \/ body.slug = "" \/ body.excerpt = ""
                \/ Falsy(body.content) \/ body.category = ""
          THEN Reply(r, 400)
        ELSE Enter([r EXCEPT !.pc = "check"])
     /\ UNCHANGED <<store, env>>

\* SELECT id FROM blog_posts WHERE slug = ?
BlogCreateCheck(r) ==
  /\ r.route = "blog.create" /\ r.pc = "check"
  /\ IF \E x \in blog_posts : x.slug = r.body.slug
       THEN Finish(r, [r EXCEPT !.clash = TRUE], 400)
     ELSE Advance(r, [r EXCEPT !.pc = "insert"])
  /\ UNCHANGED <<store, env>>

\* the row INSERT INTO blog_posts writes
BlogRow(r, id) ==
  LET b == r.body
  IN [id |-> id, title |-> b.title, slug |-> b.slug, excerpt |-> b.excerpt,
      content |-> b.content,
      image |-> IF b.image \in {"", Unsent} THEN NULL ELSE b.image,
      category |-> b.category,
      tags |-> IF b.tags \in {"", Unsent} THEN NULL ELSE b.tags,
      metaTitle |-> IF b.metaTitle = "" THEN b.title ELSE b.metaTitle,
      metaDescription |-> IF b.metaDescription = "" THEN b.excerpt
                          ELSE b.metaDescription,
      published |-> Truthy(b.published), featured |-> Truthy(b.featured),
      readTime |-> ReadTime(b.content), views |-> 0, authorId |-> r.user.id,
      createdAt |-> now, updatedAt |-> now]

\* INSERT INTO blog_posts: ER_DUP_ENTRY is thrown into the handler's catch
BlogCreateInsert(r) ==
  /\ r.route = "blog.create" /\ r.pc = "insert"
  /\ IF DuplicateSlug(r.body.slug, 0)
       THEN /\ Caught(r, [r EXCEPT !.clash = TRUE])
            /\ UNCHANGED <<blog_posts, nextId>>
     ELSE LET id == nextId.blog_posts
          IN /\ blog_posts' = blog_posts \cup {BlogRow(r, id)}
             /\ nextId' = [nextId EXCEPT !.blog_posts = id + 1]
             /\ Finish(r, [r EXCEPT !.n = id, !.wrote = TRUE], 201)
  /\ UNCHANGED <<contacts, reviews, env>>

BlogUpdateStart(tok, idp, body) ==
  LET r == NewReq("blog.update", tok, idp, NoQuery, body)
      gate == Gate("blog.update", tok)
      postId == parseInt(idp)
  IN /\ IF gate # 0 THEN Reply(r, gate)
        ELSE IF postId.nan THEN Reply(r, 400)
        ELSE IF body.slug # "" THEN Enter([r EXCEPT !.pc = "check", !.arg = postId.val])
        ELSE Enter([r EXCEPT !.pc = "update", !.arg = postId.val])
     /\ UNCHANGED <<store, env>>

\* SELECT id FROM blog_posts WHERE slug = ? AND id != ?
BlogUpdateCheck(r) ==
  /\ r.route = "blog.update" /\ r.pc = "check"
  /\ IF \E x \in blog_posts : x.slug = r.body.slug /\ x.id # r.arg
       THEN Finish(r, [r EXCEPT !.clash = TRUE], 400)
     ELSE Advance(r, [r EXCEPT !.pc = "update"])
  /\ UNCHANGED <<store, env>>

\* the row UPDATE blog_posts SET <the fields sent>, updatedAt = NOW() leaves
UpdatedRow(x, b) ==
  [x EXCEPT
     !.title = IF b.title # "" THEN b.title ELSE @,
     !.slug = IF b.slug # "" THEN b.slug ELSE @,
     !.excerpt = IF b.excerpt # "" THEN b.excerpt ELSE @,
     !.content = IF ~Falsy(b.content) THEN b.content ELSE @,
     !.image = IF b.image # Unsent THEN b.image ELSE @,
     !.category = IF b.category # "" THEN b.category ELSE @,
     !.tags = IF b.tags # Unsent THEN b.tags ELSE @,
     !.metaTitle = IF b.metaTitle # "" THEN b.metaTitle ELSE @,
     !.metaDescription = IF b.metaDescription # "" THEN b.metaDescription ELSE @,
     !.published = IF b.published # Unsent THEN Truthy(b.published) ELSE @,
     !.featured = IF b.featured # Unsent THEN Truthy(b.featured) ELSE @,
     !.readTime = IF ~Falsy(b.content) THEN ReadTime(b.content) ELSE @,
     !.updatedAt = now]

\* UPDATE blog_posts SET ... WHERE id = ?, then 404 when affectedRows = 0
BlogUpdateExec(r) ==
  /\ r.route = "blog.update" /\ r.pc = "update"
  /\ LET hit == {x \in blog_posts : x.id = r.arg}
         sets == r.body.slug # ""
         r2 == [r EXCEPT !.own = \E x \in hit : x.slug = r.body.slug]
     IN IF hit # {} /\ sets /\ DuplicateSlug(r.body.slug, r.arg)
          THEN /\ Caught(r, [r2 EXCEPT !.clash = TRUE])
               /\ UNCHANGED blog_posts
        ELSE /\ blog_posts' = (blog_posts \ hit) \cup {UpdatedRow(x, r.body) : x \in hit}
             /\ IF hit = {} THEN Finish(r, r2, 404)
                ELSE Finish(r, [r2 EXCEPT !.wrote = TRUE], 200)
  /\ UNCHANGED <<contacts, reviews, nextId, env>>

\* DELETE /api/blog/:id
BlogDelete(tok, idp) == DeleteStart("blog.delete", tok, idp)

-----------------------------------------------------------------------------
(* Blog: GET /api/blog/:slug and GET /api/blog/admin/:id.                  *)

MaxViews == 2        \* fetches by slug that run their UPDATE

BlogSlugStart(slug) ==
  LET r == NewReq("blog.slug", NoToken, Undef, NoQuery, [slug |-> slug])
  IN /\ hits[1] + hits[2] + Pending("blog.slug", {"lookup", "views"}) < MaxViews
     /\ Enter([r EXCEPT !.pc = "lookup"])
     /\ UNCHANGED <<store, env>>

\* SELECT bp.*, ... FROM blog_posts bp JOIN admins a ON bp.authorId = a.id
\* WHERE bp.slug = ? AND bp.published = 1
BlogSlugLookup(r) ==
  /\ r.route = "blog.slug" /\ r.pc = "lookup"
  /\ LET rows == {x \in blog_posts :
                    /\ x.slug = r.body.slug /\ x.published
                    /\ \E a \in admins : a.id = x.authorId}
     IN IF rows = {} THEN Finish(r, r, 404)
        ELSE Advance(r, [r EXCEPT !.pc = "views", !.rows = <<CHOOSE x \in rows : TRUE>>])
  /\ UNCHANGED <<store, env>>

\* (mutant) SET views = ? with the post.views + 1 the handler computed
ViewedRowFromSnapshot(x, post) == [x EXCEPT !.views = post.views + 1, !.updatedAt = now]

\* UPDATE blog_posts SET views = views + 1 WHERE id = ? (updatedAt is
\* ON UPDATE CURRENT_TIMESTAMP)
ViewedRow(x, post) == [x EXCEPT !.views = @ + 1, !.updatedAt = now]

\* the UPDATE of views, then post.views = post.views + 1
BlogSlugViews(r) ==
  /\ r.route = "blog.slug" /\ r.pc = "views"
  /\ LET post == r.rows[1]
         hit == {x \in blog_posts : x.id = post.id}
     IN /\ blog_posts' = (blog_posts \ hit) \cup {ViewedRow(x, post) : x \in hit}
        /\ hits' = IF hit = {} THEN hits ELSE [hits EXCEPT ![post.id] = @ + 1]
        /\ Advance(r, [r EXCEPT !.pc = "related", !.n = r.n + 1, !.wrote = hit # {},
                                !.rows = <<[post EXCEPT !.views = @ + 1]>>])
  /\ UNCHANGED <<contacts, reviews, nextId, admins, now, tokens, smtp, jwtEnv, failures>>

\* the related posts: same category, another id, published, newest first, 3
BlogSlugRelated(r) ==
  /\ r.route = "blog.slug" /\ r.pc = "related"
  /\ LET post == r.rows[1]
         cands == {x \in blog_posts :
                     /\ x.category = post.category /\ x.id # post.id /\ x.published
                     /\ \E a \in admins : a.id = x.authorId}
     IN \E ord \in OrderedDesc(cands) :
          Finish(r, [r EXCEPT !.rows = <<post>> \o SubSeq(ord, 1, Min(RelatedLimit, Len(ord)))],
                 200)
  /\ UNCHANGED <<store, env>>

BlogAdminGetStart(tok, idp) ==
  LET r == NewReq("blog.admin.get", tok, idp, NoQuery, NoBody)
      gate == Gate("blog.admin.get", tok)
      postId == parseInt(idp)
  IN /\ IF gate # 0 THEN Reply(r, gate)
        ELSE IF postId.nan THEN Reply(r, 400)
        ELSE Enter([r EXCEPT !.pc = "lookup", !.arg = postId.val])
     /\ UNCHANGED <<store, env>>

\* SELECT bp.*, ... FROM blog_posts bp JOIN admins a ... WHERE bp.id = ?
BlogAdminLookup(r) ==
  /\ r.route = "blog.admin.get" /\ r.pc = "lookup"
  /\ LET rows == {x \in blog_posts : x.id = r.arg /\ \E a \in admins : a.id = x.authorId}
     IN IF rows = {} THEN Finish(r, r, 404)
        ELSE Finish(r, [r EXCEPT !.rows = <<CHOOSE x \in rows : TRUE>>], 200)
  /\ UNCHANGED <<store, env>>

-----------------------------------------------------------------------------
(* The paginated lists: GET /api/admin/contacts, /api/admin/reviews,       *)
(* /api/contact and /api/reviews/admin.                                    *)

AdminDefaultLimit == 20

DefaultLimit == 10

AdminLists == {"admin.contacts.list", "admin.reviews.list"}

OpenLists == {"contact.list", "reviews.admin.list"}

ListRoutes == AdminLists \cup OpenLists

\* the rows the WHERE of the list (and of its COUNT) selects
Matching(route, status) ==
  IF route \in {"admin.contacts.list", "contact.list"} THEN contacts
  ELSE IF status = "pending" THEN {x \in reviews : ~x.approved}
  ELSE IF status = "approved" THEN {x \in reviews : x.approved}
  ELSE reviews

\* parseInt(req.query.page) || 1, parseInt(req.query.limit) || 20, then
\* 400 when page < 1 or limit < 1
AdminListStart(route, tok, q) ==
  LET r == NewReq(route, tok, Undef, q, NoBody)
      gate == Gate(route, tok)
      page == OrDefault(parseInt(q.page), 1)
      limit == OrDefault(parseInt(q.limit), AdminDefaultLimit)
  IN /\ IF gate # 0 THEN Reply(r, gate)
        ELSE IF page < 1 \/ limit < 1
          THEN Reply([r EXCEPT !.page = page, !.limit = limit, !.held = TRUE], 400)
        ELSE Enter([r EXCEPT !.pc = "rows", !.page = page, !.limit = limit])
     /\ UNCHANGED <<store, env>>

\* GET /api/admin/contacts
AdminContactsList(tok, q) == AdminListStart("admin.contacts.list", tok, q)

\* GET /api/admin/reviews
AdminReviewsList(tok, q) == AdminListStart("admin.reviews.list", tok, q)

\* Number(req.query.page) || 1, Number(req.query.limit) || 10, no check
OpenListStart(route, tok, q) ==
  LET r == NewReq(route, tok, Undef, q, NoBody)
      page == OrDefault(Number(q.page), 1)
      limit == OrDefault(Number(q.limit), DefaultLimit)
  IN /\ Enter([r EXCEPT !.pc = "rows", !.page = page, !.limit = limit])
     /\ UNCHANGED <<store, env>>

\* GET /api/contact
ContactList(tok, q) == OpenListStart("contact.list", tok, q)

\* GET /api/reviews/admin
ReviewsAdminList(tok, q) == OpenListStart("reviews.admin.list", tok, q)

\* offset = (page - 1) * limit
Offset(page, limit) == (page - 1) * limit

\* SELECT ... ORDER BY createdAt DESC LIMIT offset, limit: the server rejects
\* a negative offset or limit; the error is thrown into the handler's catch
ListRows(r) ==
  /\ r.route \in ListRoutes /\ r.pc = "rows"
  /\ LET offset == Offset(r.page, r.limit)
         match == Matching(r.route, r.q.status)
     IN IF offset < 0 \/ r.limit < 0 THEN Caught(r, r)
        ELSE \E ord \in OrderedDesc(match) :
               Advance(r, [r EXCEPT !.pc = "count", !.seen = match,
                                    !.rows = SubSeq(ord, offset + 1,
                                                    Min(offset + r.limit, Len(ord)))])
  /\ UNCHANGED <<store, env>>

\* (mutant) Math.floor(total / limit)
TotalPagesFloor(total, limit) == total \div limit

\* Math.ceil(total / limit)
TotalPages(total, limit) == Ceil(total, limit)

\* SELECT COUNT(*) as total ..., then the pagination of the answer
ListCount(r) ==
  /\ r.route \in ListRoutes /\ r.pc = "count"
  /\ LET match == Matching(r.route, r.q.status)
         total == Cardinality(match)
     IN Finish(r, [r EXCEPT !.n = total, !.arg = TotalPages(total, r.limit),
                            !.stable = (match = r.seen)], 200)
  /\ UNCHANGED <<store, env>>

\* DELETE /api/contact/:id
ContactDelete(tok, idp) == DeleteStart("contact.delete", tok, idp)

\* DELETE /api/admin/contacts/:id
AdminContactDelete(tok, idp) == DeleteStart("admin.contacts.delete", tok, idp)

-----------------------------------------------------------------------------
(* Login: POST /api/admin/auth.                                            *)

\* the hash bcrypt stores for a password
Hash(password) == <<"bcrypt", password>>

\* bcrypt.compare(password, hash)
bcryptCompare(password, hash) == hash = Hash(password)

\* (mutant) SELECT * FROM admins WHERE username = ?
AdminsNamed(username) == {a \in admins : a.username = username}

\* SELECT * FROM admins WHERE username = ? AND active = 1
ActiveAdmins(username) == {a \in admins : a.username = username /\ a.active}

LoginStart(username, password) ==
  LET r == NewReq("admin.auth", NoToken, Undef, NoQuery,
                  [username |-> username, password |-> password])
  IN /\ IF username = "" \/ password = "" THEN Reply(r, 400)
        ELSE Enter([r EXCEPT !.pc = "lookup"])
     /\ UNCHANGED <<store, env>>

\* one more login answered 401 (the counter stops at its bound)
Failed == failures' = Min(failures + 1, MaxFailures)

\* the SELECT, then 401 when rows.length === 0
LoginLookup(r) ==
  /\ r.route = "admin.auth" /\ r.pc = "lookup"
  /\ LET rows == ActiveAdmins(r.body.username)
     IN IF rows = {} THEN Finish(r, r, 401) /\ Failed
        ELSE /\ Advance(r, [r EXCEPT !.pc = "compare", !.rows = <<CHOOSE a \in rows : TRUE>>])
             /\ UNCHANGED failures
  /\ UNCHANGED <<store, admins, now, tokens, smtp, jwtEnv, hits>>

\* jwt.sign({id, username, email, name}, secret, {expiresIn: '24h'})
JwtSign(admin) ==
  [secret |-> JWT_SECRET, exp |-> now + TokenTTL, id |-> admin.id,
   username |-> admin.username, email |-> admin.email, name |-> admin.name]

\* await bcrypt.compare(...), then 401 or the token
LoginCompare(r) ==
  /\ r.route = "admin.auth" /\ r.pc = "compare"
  /\ LET admin == r.rows[1]
     IN IF ~bcryptCompare(r.body.password, admin.password)
          THEN Finish(r, r, 401) /\ Failed /\ UNCHANGED tokens
        ELSE /\ Finish(r, [r EXCEPT !.issued = JwtSign(admin)], 200)
             /\ tokens' = tokens \cup {JwtSign(admin)}
             /\ UNCHANGED failures
  /\ UNCHANGED <<store, admins, now, smtp, jwtEnv, hits>>

\* an hour passes
Tick ==
  /\ now < MaxClock
  /\ now' = now + 1
  /\ UNCHANGED <<store, admins, tokens, smtp, jwtEnv, failures, hits, inflight, last>>

-----------------------------------------------------------------------------
(* The public reads: GET /api/reviews, GET /api/blog and                   *)
(* GET /api/blog/categories/list.                                          *)

PublicLimit == 50

BlogDefaultLimit == 10

\* parseInt(x, 10): leading blanks, a sign, then the longest prefix of
\* decimal digits
parseInt10(s) ==
  LET t == SkipSpace(s)
      neg == t # <<>> /\ Head(t) = "-"
      u == IF t # <<>> /\ Head(t) \in {"-", "+"} THEN Tail(t) ELSE t
      ds == DigitsPrefix(u, DecVal)
      m == DigitsValue(ds, DecVal, 10, 0)
  IN IF ds = <<>> THEN NaN ELSE Num(IF neg THEN 0 - m ELSE m)

\* GET /api/reviews
ReviewsList ==
  /\ Enter([NewReq("reviews.list", NoToken, Undef, NoQuery, NoBody) EXCEPT !.pc = "rows"])
  /\ UNCHANGED <<store, env>>

\* SELECT * FROM reviews WHERE approved = 1 ORDER BY createdAt DESC LIMIT 50
ReviewsListRows(r) ==
  /\ r.route = "reviews.list" /\ r.pc = "rows"
  /\ \E ord \in OrderedDesc({x \in reviews : x.approved}) :
        Finish(r, [r EXCEPT !.seen = reviews,
                            !.rows = SubSeq(ord, 1, Min(PublicLimit, Len(ord)))], 200)
  /\ UNCHANGED <<store, env>>

\* GET /api/blog: parseInt(String(req.query.limit || '10'), 10), NaN -> 10
BlogList(q) ==
  LET lim == parseInt10(IF Falsy(q.limit) THEN <<"1", "0">> ELSE q.limit)
      off == parseInt10(IF Falsy(q.offset) THEN <<"0">> ELSE q.offset)
      r == NewReq("blog.list", NoToken, Undef, q, NoBody)
  IN /\ Enter([r EXCEPT !.pc = "rows",
                        !.limit = IF lim.nan THEN BlogDefaultLimit ELSE lim.val,
                        !.page = IF off.nan THEN 0 ELSE off.val])
     /\ UNCHANGED <<store, env>>

\* WHERE bp.published = 1 [AND bp.category = ?] [AND bp.featured = 1], with
\* the JOIN admins of the SELECT and without it in the COUNT
BlogMatching(q, joined) ==
  {x \in blog_posts :
     /\ x.published
     /\ ~joined \/ \E a \in admins : a.id = x.authorId
     /\ q.category \notin {"", "all"} => x.category = q.category
     /\ q.featured = "true" => x.featured}

\* SELECT bp.*, a.name ... ORDER BY bp.createdAt DESC LIMIT ?, ?: a negative
\* offset or limit is rejected by the server
BlogListRows(r) ==
  /\ r.route = "blog.list" /\ r.pc = "rows"
  /\ IF r.page < 0 \/ r.limit < 0 THEN Caught(r, r)
     ELSE \E ord \in OrderedDesc(BlogMatching(r.q, TRUE)) :
            Advance(r, [r EXCEPT !.pc = "count", !.seen = blog_posts,
                                 !.rows = SubSeq(ord, r.page + 1,
                                                 Min(r.page + r.limit, Len(ord)))])
  /\ UNCHANGED <<store, env>>

\* SELECT COUNT(*) as total FROM blog_posts WHERE published = 1 ...
BlogListCount(r) ==
  /\ r.route = "blog.list" /\ r.pc = "count"
  /\ Finish(r, [r EXCEPT !.n = Cardinality(BlogMatching(r.q, FALSE)),
                         !.stable = (blog_posts = r.seen)], 200)
  /\ UNCHANGED <<store, env>>

\* GET /api/blog/categories/list
BlogCategories ==
  /\ Enter([NewReq("blog.categories", NoToken, Undef, NoQuery, NoBody) EXCEPT !.pc = "rows"])
  /\ UNCHANGED <<store, env>>

\* SELECT category, COUNT(*) as count FROM blog_posts WHERE published = 1
\* GROUP BY category ORDER BY count DESC
BlogCategoriesRows(r) ==
  /\ r.route = "blog.categories" /\ r.pc = "rows"
  /\ LET pub == BlogMatching([category |-> "", featured |-> ""], FALSE)
         groups == {[category |-> c, count |-> Cardinality({x \in pub : x.category = c})] :
                      c \in {x.category : x \in pub}}
         k == Cardinality(groups)
     IN \E ord \in [1..k -> groups] :
          /\ \A i, j \in 1..k : i # j => ord[i] # ord[j]
          /\ \A i, j \in 1..k : i < j => ord[i].count >= ord[j].count
          /\ Finish(r, [r EXCEPT !.seen = blog_posts, !.rows = ord], 200)
  /\ UNCHANGED <<store, env>>

-----------------------------------------------------------------------------
(* The state after the schema is loaded, and the inputs of the model.      *)

\* INSERT INTO admins ... ('admin', ..., 'Administrador')
SeedAdmin == [id |-> 1, username |-> "admin", email |-> "admin@asistecare.com",
              password |-> Hash("admin123"), name |-> "Administrador",
              active |-> TRUE]

\* the tables as database_schema.sql leaves them, nothing in flight
Loaded ==
  /\ jwtEnv = "server"
  /\ contacts = {}
  /\ reviews = {}
  /\ blog_posts = {}
  /\ admins = {SeedAdmin}
  /\ nextId = [contacts |-> 1, reviews |-> 1, blog_posts |-> 1]
  /\ now = 0
  /\ failures = 0
  /\ hits = [id \in 1..MaxRows |-> 0]
  /\ inflight = EmptyBag
  /\ last = NoReq

Init == Loaded /\ tokens = {} /\ smtp \in BOOLEAN

\* the admin logged in a day ago and again at hour 0
InitLoggedIn == Loaded /\ tokens = {Expired, Fresh} /\ smtp \in BOOLEAN

\* the same, for the routes that send no mail
InitBlog == Loaded /\ tokens = {Expired, Fresh} /\ smtp = FALSE

ValidReview == [name |-> "Ana", email |-> <<"a", "@", "b", ".", "c">>,
                rating |-> <<"5">>, comment |-> MinComment]

Ratings == {Undef, <<>>, <<"0">>, <<"1">>, <<"5">>, <<"6">>, <<"-", "1">>,
            <<"5", ".", "9">>, <<"5", "x">>, <<"x">>}

Comments == {0, MinComment - 1, MinComment, MaxComment, MaxComment + 1}

Emails == {Undef, <<"a", "@", "b">>, <<"a", " ", "@", "b", ".", "c">>,
           <<"a", "@", "b", ".", "c">>}

ReviewBodies ==
  {[ValidReview EXCEPT !.rating = x] : x \in Ratings} \cup
  {[ValidReview EXCEPT !.comment = x] : x \in Comments} \cup
  {[ValidReview EXCEPT !.email = x] : x \in Emails} \cup
  {[ValidReview EXCEPT !.name = ""],
   [ValidReview EXCEPT !.rating = <<"1">>, !.comment = MaxComment],
   [ValidReview EXCEPT !.rating = <<"6">>, !.comment = MaxComment + 1]}

IdParams == {<<"1">>, <<"2">>, <<"x">>}

\* what the model sends to the routes that mount no middleware
Anonymous == {NoToken}

SmallReviewBodies == {ValidReview, [ValidReview EXCEPT !.comment = MinComment - 1]}

NextReviews ==
  \/ \E body \in SmallReviewBodies : ReviewCreateStart(body)
  \/ \E r \in InFlight : ReviewInsert(r)
  \/ \E r \in InFlight : SendMailResolves(r)
  \/ \E r \in InFlight : SendMailRejects(r)
  \/ \E tok \in Presentable, idp \in IdParams : AdminReviewApprove(tok, idp)
  \/ \E tok \in Anonymous, idp \in IdParams : ReviewsApprove(tok, idp)
  \/ \E r \in InFlight : ReviewApproveUpdate(r)
  \/ \E r \in InFlight : ReviewApproveSelect(r)
  \/ \E tok \in Presentable, idp \in IdParams : AdminReviewDelete(tok, idp)
  \/ \E tok \in Anonymous, idp \in IdParams : ReviewsDelete(tok, idp)
  \/ \E r \in InFlight : DeleteExec(r)
  \/ \E r \in InFlight : StoreFail(r)

SpecReviews == InitLoggedIn /\ [][NextReviews]_vars

ValidContact == [name |-> "Ana", phone |-> "555-1", email |-> <<"a", "@", "b", ".", "c">>,
                 postalCode |-> <<"2", "8", "0", "0", "1">>]

PostalCodes == {Undef, <<"2", "8", "0">>, <<"2", "8", "0", "0", "1">>,
                <<"2", "8", "0", "0", "x">>, <<"2", "8", "0", "0", "1", "1">>,
                ArrayOf(<<"2", "8", "0", "0", "1">>)}

ContactBodies ==
  {[ValidContact EXCEPT !.postalCode = x] : x \in PostalCodes} \cup
  {[ValidContact EXCEPT !.email = x] : x \in Emails} \cup
  {[ValidContact EXCEPT !.name = ""], [ValidContact EXCEPT !.phone = ""]}

\* the two create routes and their mail, over all the bodies of the model
NextCreate ==
  \/ \E body \in ReviewBodies : ReviewCreateStart(body)
  \/ \E body \in ContactBodies : ContactCreateStart(body)
  \/ \E r \in InFlight : ReviewInsert(r)
  \/ \E r \in InFlight : ContactInsert(r)
  \/ \E r \in InFlight : SendMailResolves(r)
  \/ \E r \in InFlight : SendMailRejects(r)
  \/ \E r \in InFlight : StoreFail(r)

SpecCreate == InitLoggedIn /\ [][NextCreate]_vars

ValidPost == [title |-> "T", slug |-> "a", excerpt |-> "E", content |-> <<"h", "i">>,
              image |-> Unsent, category |-> "c", tags |-> Unsent, metaTitle |-> "",
              metaDescription |-> "", published |-> "true", featured |-> Unsent]

\* a PUT body that sends nothing
NoChange == [title |-> "", slug |-> "", excerpt |-> "", content |-> Undef,
             image |-> Unsent, category |-> "", tags |-> Unsent, metaTitle |-> "",
             metaDescription |-> "", published |-> Unsent, featured |-> Unsent]

Slugs == {"a", "b"}

\* the tokens the model sends to the blog's protected routes
BlogTokens == {NoToken, Expired, Fresh}

SlugCreateBodies == {[ValidPost EXCEPT !.slug = x] : x \in Slugs \cup {""}}

SlugUpdateBodies == {[NoChange EXCEPT !.slug = x] : x \in Slugs \cup {""}}

\* create, update and delete of posts, interleaved
NextBlogSlug ==
  \/ \E tok \in BlogTokens, body \in SlugCreateBodies : BlogCreateStart(tok, body)
  \/ \E r \in InFlight : BlogCreateCheck(r)
  \/ \E r \in InFlight : BlogCreateInsert(r)
  \/ \E tok \in {Fresh}, idp \in IdParams, body \in SlugUpdateBodies :
        BlogUpdateStart(tok, idp, body)
  \/ \E r \in InFlight : BlogUpdateCheck(r)
  \/ \E r \in InFlight : BlogUpdateExec(r)
  \/ \E tok \in {Fresh}, idp \in IdParams : BlogDelete(tok, idp)
  \/ \E r \in InFlight : DeleteExec(r)
  \/ \E r \in InFlight : StoreFail(r)

SpecBlogSlug == InitBlog /\ [][NextBlogSlug]_vars

ViewCreateBodies == {ValidPost, [ValidPost EXCEPT !.slug = "b", !.published = "false"]}

PostIds == {<<"1">>, <<"2">>}

ViewUpdateBodies == {[NoChange EXCEPT !.published = p] : p \in {"true", "false"}}

\* the reads of posts, with the writes that interleave with them
NextBlogViews ==
  \/ \E body \in ViewCreateBodies : BlogCreateStart(Fresh, body)
  \/ \E r \in InFlight : BlogCreateCheck(r)
  \/ \E r \in InFlight : BlogCreateInsert(r)
  \/ \E idp \in PostIds, body \in ViewUpdateBodies : BlogUpdateStart(Fresh, idp, body)
  \/ \E r \in InFlight : BlogUpdateExec(r)
  \/ \E idp \in PostIds : BlogDelete(Fresh, idp)
  \/ \E r \in InFlight : DeleteExec(r)
  \/ \E slug \in Slugs : BlogSlugStart(slug)
  \/ \E r \in InFlight : BlogSlugLookup(r)
  \/ \E r \in InFlight : BlogSlugViews(r)
  \/ \E r \in InFlight : BlogSlugRelated(r)
  \/ \E idp \in PostIds : BlogAdminGetStart(Fresh, idp)
  \/ \E r \in InFlight : BlogAdminLookup(r)
  \/ \E r \in InFlight : StoreFail(r)

SpecBlogViews == InitBlog /\ [][NextBlogViews]_vars

\* an admin row that was switched off
RetiredAdmin == [id |-> 2, username |-> "old", email |-> "old@asistecare.com",
                 password |-> Hash("old123"), name |-> "Anterior", active |-> FALSE]

InitLogin ==
  /\ jwtEnv = "server"
  /\ contacts = {}
  /\ reviews = {}
  /\ blog_posts = {}
  /\ admins = {SeedAdmin, RetiredAdmin}
  /\ nextId = [contacts |-> 1, reviews |-> 1, blog_posts |-> 1]
  /\ now = 0
  /\ failures = 0
  /\ hits = [id \in 1..MaxRows |-> 0]
  /\ inflight = EmptyBag
  /\ last = NoReq
  /\ tokens = {}
  /\ smtp = FALSE

Usernames == {"", "admin", "old", "ghost"}

Passwords == {"", "admin123", "old123", "wrong"}

NextLogin ==
  \/ \E u \in Usernames, pw \in Passwords : LoginStart(u, pw)
  \/ \E r \in InFlight : LoginLookup(r)
  \/ \E r \in InFlight : LoginCompare(r)
  \/ \E r \in InFlight : StoreFail(r)
  \/ Tick

SpecLogin == InitLogin /\ [][NextLogin]_vars

MaxList == 3         \* rows of a table when the list request arrives

\* the createdAt of the rows 1..n: NOW() at each insert, so it never
\* decreases with the id
Stamps(n) == {f \in [1..n -> 0..MaxClock] : \A i, j \in 1..n : i < j => f[i] <= f[j]}

ContactAt(i, t) == [id |-> i, name |-> "Ana", phone |-> "555-1",
                    email |-> <<"a", "@", "b", ".", "c">>,
                    postalCode |-> <<"2", "8", "0", "0", "1">>, createdAt |-> t]

ReviewAt(i, t, a) == [id |-> i, name |-> "Ana", email |-> <<"a", "@", "b", ".", "c">>,
                      rating |-> MaxRating, comment |-> MinComment, approved |-> a,
                      createdAt |-> t, updatedAt |-> t]

\* n contacts and n reviews were created, some reviews approved, at hour
\* MaxClock nothing is in flight
InitLists ==
  /\ jwtEnv = "server"
  /\ \E n \in 0..MaxList : \E f \in Stamps(n) : \E a \in [1..n -> BOOLEAN] :
        /\ contacts = {ContactAt(i, f[i]) : i \in 1..n}
        /\ reviews = {ReviewAt(i, f[i], a[i]) : i \in 1..n}
        /\ nextId = [contacts |-> n + 1, reviews |-> n + 1, blog_posts |-> 1]
  /\ blog_posts = {}
  /\ admins = {SeedAdmin}
  /\ now = MaxClock
  /\ failures = 0
  /\ hits = [id \in 1..MaxRows |-> 0]
  /\ inflight = EmptyBag
  /\ last = NoReq
  /\ tokens = {Fresh}
  /\ smtp = FALSE

Pages == {Undef, <<"0">>, <<"-", "1">>, <<"1">>, <<"2">>, <<"x">>}

Limits == {Undef, <<"0">>, <<"-", "1">>, <<"1">>, <<"2">>}

Filters == {"none", "pending", "approved"}

ContactQueries == [page : Pages, limit : Limits, status : {"none"}]

ReviewQueries == [page : Pages, limit : Limits, status : Filters]

\* no request has been made yet
Quiet == inflight = EmptyBag /\ last = NoReq

\* a list request is suspended and nothing was answered yet
Listing == last = NoReq /\ \E r \in InFlight : r.route \in ListRoutes

\* one list request meets the tables, and one delete interleaves with it
NextLists ==
  \/ Quiet /\ \E q \in ContactQueries : AdminContactsList(Fresh, q)
  \/ Quiet /\ \E q \in ReviewQueries : AdminReviewsList(Fresh, q)
  \/ Quiet /\ \E q \in ContactQueries : ContactList(NoToken, q)
  \/ Quiet /\ \E q \in ReviewQueries : ReviewsAdminList(NoToken, q)
  \/ \E r \in InFlight : ListRows(r)
  \/ \E r \in InFlight : ListCount(r)
  \/ Listing /\ \E idp \in {<<"1">>} : ContactDelete(NoToken, idp)
  \/ Listing /\ \E idp \in {<<"1">>} : ReviewsDelete(NoToken, idp)
  \/ \E r \in InFlight : DeleteExec(r)
  \/ \E r \in InFlight : StoreFail(r)

SpecLists == InitLists /\ [][NextLists]_vars

\* the delete routes of the three tables, with the creates that give them rows
NextDelete ==
  \/ ContactCreateStart(ValidContact)
  \/ \E r \in InFlight : ContactInsert(r)
  \/ ReviewCreateStart(ValidReview)
  \/ \E r \in InFlight : ReviewInsert(r)
  \/ BlogCreateStart(Fresh, ValidPost)
  \/ \E r \in InFlight : BlogCreateCheck(r)
  \/ \E r \in InFlight : BlogCreateInsert(r)
  \/ \E tok \in {NoToken, Fresh}, idp \in {<<"1">>, <<"x">>} : AdminContactDelete(tok, idp)
  \/ \E idp \in PostIds : ContactDelete(NoToken, idp)
  \/ \E idp \in {<<"1">>} : AdminReviewDelete(Fresh, idp)
  \/ \E idp \in {<<"2">>} : ReviewsDelete(NoToken, idp)
  \/ \E idp \in {<<"1">>} : BlogDelete(Fresh, idp)
  \/ \E r \in InFlight : DeleteExec(r)
  \/ \E r \in InFlight : StoreFail(r)

SpecDelete == InitBlog /\ [][NextDelete]_vars

\* review 1 was created and approved at hour 0, review 2 is pending
InitApprove ==
  /\ jwtEnv = "server"
  /\ contacts = {}
  /\ reviews = {ReviewAt(1, 0, TRUE), ReviewAt(2, 0, FALSE)}
  /\ blog_posts = {}
  /\ admins = {SeedAdmin}
  /\ nextId = [contacts |-> 1, reviews |-> 3, blog_posts |-> 1]
  /\ now = 0
  /\ failures = 0
  /\ hits = [id \in 1..MaxRows |-> 0]
  /\ inflight = EmptyBag
  /\ last = NoReq
  /\ tokens = {Expired, Fresh}
  /\ smtp = FALSE

\* approve on both base paths, with the deletes and the clock
NextApprove ==
  \/ \E tok \in {NoToken, Fresh}, idp \in IdParams : AdminReviewApprove(tok, idp)
  \/ \E idp \in IdParams : ReviewsApprove(NoToken, idp)
  \/ \E r \in InFlight : ReviewApproveUpdate(r)
  \/ \E r \in InFlight : ReviewApproveSelect(r)
  \/ \E idp \in PostIds : AdminReviewDelete(Fresh, idp)
  \/ \E idp \in PostIds : ReviewsDelete(NoToken, idp)
  \/ \E r \in InFlight : DeleteExec(r)
  \/ \E r \in InFlight : StoreFail(r)
  \/ Tick

SpecApprove == InitApprove /\ [][NextApprove]_vars

FrameUpdateBodies ==
  {NoChange, [NoChange EXCEPT !.title = "T2"], [NoChange EXCEPT !.slug = "a"],
   [NoChange EXCEPT !.slug = "b"],
   [NoChange EXCEPT !.content = <<"x">>, !.published = "false"]}

\* the post the admin created at hour t with this slug
PostAt(id, slug, t) ==
  [BlogRow(NewReq("blog.create", Fresh, Undef, NoQuery, [ValidPost EXCEPT !.slug = slug]), id)
     EXCEPT !.createdAt = t, !.updatedAt = t]

\* posts 1 and 2 were created at hour 0, and an hour has passed
InitBlogUpdate ==
  /\ jwtEnv = "server"
  /\ now = 1
  /\ contacts = {}
  /\ reviews = {}
  /\ blog_posts = {PostAt(1, "a", 0), PostAt(2, "b", 0)}
  /\ admins = {SeedAdmin}
  /\ nextId = [contacts |-> 1, reviews |-> 1, blog_posts |-> 3]
  /\ failures = 0
  /\ hits = [id \in 1..MaxRows |-> 0]
  /\ inflight = EmptyBag
  /\ last = NoReq
  /\ tokens = {Expired, Fresh}
  /\ smtp = FALSE

\* updates of posts over bodies that send different fields, and a delete
NextBlogUpdate ==
  \/ \E idp \in PostIds, body \in FrameUpdateBodies : BlogUpdateStart(Fresh, idp, body)
  \/ \E tok \in {NoToken, Expired}, idp \in {<<"1">>, <<"x">>} :
        BlogUpdateStart(tok, idp, NoChange)
  \/ \E r \in InFlight : BlogUpdateCheck(r)
  \/ \E r \in InFlight : BlogUpdateExec(r)
  \/ \E idp \in {<<"2">>} : BlogDelete(Fresh, idp)
  \/ \E r \in InFlight : DeleteExec(r)
  \/ \E r \in InFlight : StoreFail(r)

SpecBlogUpdate == InitBlogUpdate /\ [][NextBlogUpdate]_vars

\* the row of PostAt with its published flag
PostWith(id, slug, t, pub) == [PostAt(id, slug, t) EXCEPT !.published = pub]

\* two reviews and two posts of one category were created at hour 0; review
\* 1 is approved, and any of the others may be approved or published
InitPublic ==
  /\ jwtEnv = "server"
  /\ now = 1
  /\ contacts = {}
  /\ \E a \in BOOLEAN : reviews = {ReviewAt(1, 0, TRUE), ReviewAt(2, 0, a)}
  /\ \E p1, p2 \in BOOLEAN : blog_posts = {PostWith(1, "a", 0, p1), PostWith(2, "b", 0, p2)}
  /\ admins = {SeedAdmin}
  /\ nextId = [contacts |-> 1, reviews |-> 3, blog_posts |-> 3]
  /\ failures = 0
  /\ hits = [id \in 1..MaxRows |-> 0]
  /\ inflight = EmptyBag
  /\ last = NoReq
  /\ tokens = {Expired, Fresh}
  /\ smtp = FALSE

BlogQueries ==
  {[category |-> c, featured |-> "", limit |-> Undef, offset |-> Undef] :
     c \in {"", "c", "all", "d"}} \cup
  {[category |-> "", featured |-> "true", limit |-> <<"1">>, offset |-> <<"1">>],
   [category |-> "", featured |-> "", limit |-> <<"1">>, offset |-> <<"1">>],
   [category |-> "", featured |-> "", limit |-> <<"-", "1">>, offset |-> <<"x">>]}

\* the GET routes that mount no middleware
PublicRoutes == {"reviews.list", "reviews.admin.list", "blog.list", "blog.categories",
                 "blog.slug"}

\* a public read is suspended and nothing was answered yet
Reading == last = NoReq /\ \E r \in InFlight : r.route \in PublicRoutes

\* one read anyone can make, and one write that publishes, unpublishes or
\* approves while it is suspended
NextPublic ==
  \/ Quiet /\ ReviewsList
  \/ Quiet /\ \E q \in {NoQuery} : ReviewsAdminList(NoToken, q)
  \/ \E r \in InFlight : ListRows(r)
  \/ \E r \in InFlight : ListCount(r)
  \/ \E r \in InFlight : ReviewsListRows(r)
  \/ Quiet /\ \E q \in BlogQueries : BlogList(q)
  \/ \E r \in InFlight : BlogListRows(r)
  \/ \E r \in InFlight : BlogListCount(r)
  \/ Quiet /\ BlogCategories
  \/ \E r \in InFlight : BlogCategoriesRows(r)
  \/ Quiet /\ \E slug \in Slugs : BlogSlugStart(slug)
  \/ \E r \in InFlight : BlogSlugLookup(r)
  \/ \E r \in InFlight : BlogSlugViews(r)
  \/ \E r \in InFlight : BlogSlugRelated(r)
  \/ Reading /\ \E idp \in PostIds, body \in ViewUpdateBodies :
        BlogUpdateStart(Fresh, idp, body)
  \/ \E r \in InFlight : BlogUpdateExec(r)
  \/ Reading /\ \E idp \in {<<"2">>} : ReviewsApprove(NoToken, idp)
  \/ \E r \in InFlight : ReviewApproveUpdate(r)
  \/ \E r \in InFlight : ReviewApproveSelect(r)
  \/ \E r \in InFlight : StoreFail(r)

SpecPublic == InitPublic /\ [][NextPublic]_vars

\* a token login issued 23 hours before hour 0
Ageing == [Fresh EXCEPT !.exp = 1]

\* a token a reader of the source signed with its fallback secret
Minted == [secret |-> "fallback-secret", exp |-> MaxClock + TokenTTL, id |-> 7,
           username |-> "guest", email |-> "guest@example.com", name |-> "Guest"]

\* one row in each table; the admin logged in more than a day ago and 23
\* hours ago; the process runs with or without JWT_SECRET in its environment
InitAuth ==
  /\ jwtEnv \in {"", "server"}
  /\ now = 0
  /\ contacts = {ContactAt(1, 0)}
  /\ reviews = {ReviewAt(1, 0, FALSE)}
  /\ blog_posts = {PostAt(1, "a", 0)}
  /\ admins = {SeedAdmin}
  /\ nextId = [contacts |-> 2, reviews |-> 2, blog_posts |-> 2]
  /\ failures = 0
  /\ hits = [id \in 1..MaxRows |-> 0]
  /\ inflight = EmptyBag
  /\ last = NoReq
  /\ tokens = {Expired, Ageing}
  /\ smtp = FALSE

\* the Authorization headers the model sends to the protected routes
AuthTokens == {NoToken, Forged, Minted} \cup tokens

\* no handler is suspended
Idle == inflight = EmptyBag

\* login has issued no token since hour 0
NoLoginYet == tokens = {Expired, Ageing}

\* no request has written a table since hour 0
Untouched ==
  /\ contacts = {ContactAt(1, 0)}
  /\ reviews = {ReviewAt(1, 0, FALSE)}
  /\ blog_posts = {PostAt(1, "a", 0)}

\* a login and requests to every protected route, one at a time, while the
\* clock passes the expiry of a token; the writes arrive until one is done
NextAuth ==
  \/ Idle /\ NoLoginYet /\ LoginStart("admin", "admin123")
  \/ \E r \in InFlight : LoginLookup(r)
  \/ \E r \in InFlight : LoginCompare(r)
  \/ Idle /\ \E tok \in AuthTokens : AdminContactsList(tok, NoQuery)
  \/ Idle /\ \E tok \in AuthTokens : AdminReviewsList(tok, NoQuery)
  \/ \E r \in InFlight : ListRows(r)
  \/ \E r \in InFlight : ListCount(r)
  \/ Idle /\ Untouched /\ \E tok \in AuthTokens : AdminContactDelete(tok, <<"1">>)
  \/ Idle /\ Untouched /\ \E tok \in AuthTokens : AdminReviewDelete(tok, <<"1">>)
  \/ Idle /\ Untouched /\ \E tok \in AuthTokens : BlogDelete(tok, <<"1">>)
  \/ \E r \in InFlight : DeleteExec(r)
  \/ Idle /\ Untouched /\ \E tok \in AuthTokens : AdminReviewApprove(tok, <<"1">>)
  \/ \E r \in InFlight : ReviewApproveUpdate(r)
  \/ \E r \in InFlight : ReviewApproveSelect(r)
  \/ Idle /\ \E tok \in AuthTokens : BlogAdminGetStart(tok, <<"1">>)
  \/ \E r \in InFlight : BlogAdminLookup(r)
  \/ Idle /\ Untouched /\ \E tok \in AuthTokens :
        BlogCreateStart(tok, [ValidPost EXCEPT !.slug = "b"])
  \/ \E r \in InFlight : BlogCreateCheck(r)
  \/ \E r \in InFlight : BlogCreateInsert(r)
  \/ Idle /\ Untouched /\ \E tok \in AuthTokens :
        BlogUpdateStart(tok, <<"1">>, [NoChange EXCEPT !.slug = "c"])
  \/ \E r \in InFlight : BlogUpdateCheck(r)
  \/ \E r \in InFlight : BlogUpdateExec(r)
  \/ Tick

SpecAuth == InitAuth /\ [][NextAuth]_vars

-----------------------------------------------------------------------------
(* The claims.                                                             *)

Answered == {last} \ {NoReq}

\* the requests the model knows: those suspended and the one answered last
Known == InFlight \cup Answered

\* C1: a review enters the table with approved = FALSE; a step changes the
\* approved of a review that stays in the table only from FALSE to TRUE, and
\* only as the UPDATE of an approve request for that id.
C1Step ==
  /\ \A y \in reviews' :
        (\A x \in reviews : x.id # y.id) => ~y.approved
  /\ \A x \in reviews : \A y \in reviews' :
        x.id = y.id =>
          /\ x.approved => y.approved
          /\ x.approved # y.approved =>
                \E r \in InFlight :
                   /\ r.route \in ApproveRoutes /\ r.pc = "update" /\ r.arg = x.id
                   /\ [r EXCEPT !.pc = "select", !.wrote = TRUE] \in BagToSet(inflight')

C1_ApprovedOneWay == [][C1Step]_vars

\* an approved review is approved again while it is in the table
C1_Witness ==
  /\ \E x \in reviews : x.approved /\ x.id = last.arg
  /\ last.route \in ApproveRoutes /\ last.status = 200
  /\ \E r \in InFlight : r.route \in ApproveRoutes /\ r.pc = "select" /\ r.arg = last.arg

AdminMutating == {"admin.reviews.approve", "reviews.approve", "admin.reviews.delete",
                  "reviews.delete", "admin.contacts.delete", "contact.delete",
                  "blog.create", "blog.update", "blog.delete"}

\* C2 (as claimed): on every admin-mutating route a request without a token
\* is answered 401 and one with an invalid or expired token 403, and neither
\* reaches the handler: it is never suspended at a statement and writes nothing.
C2_MutatingRoutesNeedToken ==
  \A r \in Known :
     r.route \in AdminMutating /\ (r.token = NoToken \/ ~JwtVerify(r.token)) =>
        /\ r.pc = "done"
        /\ r.status = IF r.token = NoToken THEN 401 ELSE 403
        /\ ~r.wrote

DigitChar(k) == CHOOSE c \in DOMAIN DecVal : DecVal[c] = k

\* the rating sent is the numeral of an integer in 1..5
RatingInRange(s) == \E k \in MinRating..MaxRating : s = <<DigitChar(k)>>

ValidReviewBody(b) ==
  /\ b.name # ""
  /\ emailRegex(b.email)
  /\ RatingInRange(b.rating)
  /\ b.comment \in MinComment..MaxComment

ValidContactBody(b) ==
  /\ b.name # "" /\ b.phone # ""
  /\ emailRegex(b.email)
  /\ b.postalCode # Undef /\ Len(b.postalCode) = PostalCodeLen
  /\ \A k \in 1..Len(b.postalCode) : b.postalCode[k] \in DOMAIN DecVal

\* C5 (as claimed): a review whose rating is outside 1..5 or whose comment
\* has fewer than 10 or more than 1000 characters is answered 400 and inserts
\* no row; a valid one is not answered 400.
C5_ReviewRangeRejected ==
  \A r \in Known :
     r.route = "reviews.create" =>
        /\ (~RatingInRange(r.body.rating) \/ r.body.comment \notin MinComment..MaxComment)
              => r.status = 400 /\ ~r.wrote
        /\ ValidReviewBody(r.body) => r.status # 400

CreateRoutes == {"reviews.create", "contact.create"}

ValidBody(r) ==
  IF r.route = "reviews.create" THEN ValidReviewBody(r.body) ELSE ValidContactBody(r.body)

\* the table holds the row of r, with the fields r submitted, under id r.n
Stored(r) ==
  IF r.route = "reviews.create"
  THEN \E x \in reviews :
          /\ x.id = r.n /\ x.name = r.body.name /\ x.email = r.body.email
          /\ x.rating = DecVal[r.body.rating[1]] /\ x.comment = r.body.comment
          /\ ~x.approved
  ELSE \E x \in contacts :
          /\ x.id = r.n /\ x.name = r.body.name /\ x.phone = r.body.phone
          /\ x.email = r.body.email /\ x.postalCode = r.body.postalCode

\* C6: a valid contact or review submission is never answered 400; once its
\* INSERT has run the row is in the table with the submitted fields and stays
\* there, and the answer is 201 with the generated id whether the mail was
\* skipped, sent or failed (500 is answered only when the INSERT itself failed,
\* with no row written).
C6_CreateSurvivesMail ==
  \A r \in Known :
     r.route \in CreateRoutes /\ ValidBody(r) =>
        /\ r.status \in {0, 201, 500}
        /\ r.status = 500 => ~r.wrote
        /\ r.wrote => Stored(r) /\ r.n > 0
        /\ r.pc = "done" /\ r.wrote => r.status = 201
        /\ r.status = 201 => r.wrote /\ r.mail \in {"skipped", "sent", "failed"}

\* a valid contact is answered 201 after its mail failed, its row in the table
C6_Witness ==
  /\ last.route = "contact.create" /\ ValidBody(last)
  /\ last.mail = "failed" /\ last.status = 201 /\ Stored(last)

SlugRoutes == {"blog.create", "blog.update"}

\* C3 (as claimed): a create or update whose slug is in use by another post
\* when its statement runs is answered 400 and writes nothing, also when
\* another request took the slug while it was in flight; an update that finds
\* its post already carrying the slug is answered 200.
C3_DuplicateSlugIs400 ==
  \A r \in Answered :
     r.route \in SlugRoutes =>
        /\ r.clash => r.status = 400 /\ ~r.wrote
        /\ r.own => r.status = 200

\* C4: no two posts in the table have the same slug.
C4_SlugUnique ==
  \A x \in blog_posts : \A y \in blog_posts : x.slug = y.slug => x.id = y.id

\* two posts are in the table and the key has just rejected a write that
\* passed its check
C4_Witness ==
  /\ Cardinality(blog_posts) = 2
  /\ last.route \in SlugRoutes /\ last.clash /\ last.status = 500

C10Counted ==
  /\ \A x \in blog_posts : x.views = hits[x.id]
  /\ \A r \in Answered :
        r.route = "blog.slug" /\ r.status = 200 => r.n = 1
  /\ \A r \in Known :
        r.route \in {"blog.admin.get", "blog.update", "blog.create", "blog.delete"}
           => r.n # 1 \/ r.route = "blog.create"

C10Step ==
  \A x \in blog_posts : \A y \in blog_posts' :
     x.id = y.id =>
        /\ y.views >= x.views
        /\ y.views # x.views =>
              /\ y.views = x.views + 1
              /\ \E r \in InFlight :
                    /\ r.route = "blog.slug" /\ r.pc = "views" /\ r.rows[1].id = x.id
                    /\ CopiesIn(r, inflight') < CopiesIn(r, inflight)

\* C10: the views of a post in the table is the number of fetches by slug
\* that ran their UPDATE on it, each fetch answered 200 ran it exactly once,
\* and a step changes views only by +1 and only as that UPDATE.
C10_ViewsCountFetches == []C10Counted /\ [][C10Step]_vars

\* two fetches of one post have been answered and its views is 2
C10_Witness ==
  /\ last.route = "blog.slug" /\ last.status = 200
  /\ \E x \in blog_posts : x.id = last.rows[1].id /\ x.views = 2 /\ hits[x.id] = 2

\* the list requests answered 200 whose COUNT met the rows their SELECT met
Listed == {r \in Answered : r.route \in ListRoutes /\ r.status = 200 /\ r.stable}

\* the least k with k * L >= N
LeastCover(N, L) == CHOOSE k \in 0..N : k * L >= N /\ \A j \in 0..N : j * L >= N => k <= j

\* the row passes the status filter of the request
Filtered(r, x) ==
  /\ r.q.status = "pending" /\ r.route \notin {"admin.contacts.list", "contact.list"}
       => ~x.approved
  /\ r.q.status = "approved" /\ r.route \notin {"admin.contacts.list", "contact.list"}
       => x.approved

\* C7: a list answered 200 over N matching rows with page size L reports
\* total = N and totalPages = ceil(N/L); page p in 1..totalPages holds the
\* rows at positions (p-1)*L+1 .. min(p*L, N) of a createdAt-descending order
\* of the matching rows, and the last page holds N mod L rows (L when that
\* is 0).
C7_Pagination ==
  \A r \in Listed :
    LET N == Cardinality(r.seen)
        L == r.limit
        p == r.page
    IN /\ L >= 1 /\ p >= 1
       /\ \A x \in r.seen : Filtered(r, x)
       /\ r.n = N
       /\ r.arg = LeastCover(N, L)
       /\ p \in 1..r.arg =>
            /\ \E ord \in OrderedDesc(r.seen) :
                  r.rows = SubSeq(ord, (p - 1) * L + 1, Min(p * L, N))
            /\ p = r.arg => Len(r.rows) = IF N % L = 0 THEN L ELSE N % L
       /\ p > r.arg => r.rows = <<>>

\* the last page of a filtered or unfiltered list was answered, a second
\* page shorter than the page size
C7_Witness ==
  \E r \in Listed :
    /\ r.page = r.arg /\ r.page > 1
    /\ Cardinality(r.seen) % r.limit # 0
    /\ Len(r.rows) = Cardinality(r.seen) % r.limit

\* the number the route reads from a query parameter
Parsed(route, s) == IF route \in AdminLists THEN parseInt(s) ELSE Number(s)

NonPositive(route, s) == ~Parsed(route, s).nan /\ Parsed(route, s).val <= 0

\* C8 (as claimed): a list request whose page or limit parses to 0 or to a
\* negative integer is answered 400 and never reaches its SELECT.
C8_NonPositiveIs400 ==
  \A r \in Known :
    /\ r.route \in ListRoutes
    /\ NonPositive(r.route, r.q.page) \/ NonPositive(r.route, r.q.limit)
    => r.pc = "done" /\ r.status = 400

Logins == {r \in Answered : r.route = "admin.auth"}

\* the username is that of an active admin and the password that of its hash
Match(r) ==
  \E a \in admins :
    a.username = r.body.username /\ a.active /\ a.password = Hash(r.body.password)

Supplied(r) == r.body.username # "" /\ r.body.password # ""

C9Answer ==
  \A r \in Logins :
    /\ r.issued # NoToken <=> r.status = 200
    /\ r.status = 200 =>
         /\ Match(r)
         /\ r.issued \in tokens /\ r.issued.secret = JWT_SECRET
         /\ \E a \in admins : a.username = r.body.username /\ a.id = r.issued.id
    /\ ~Supplied(r) => r.status = 400
    /\ Supplied(r) /\ Match(r) => r.status \in {200, 500}
    /\ Supplied(r) /\ ~Match(r) => r.status \in {401, 500}

C9Step ==
  /\ tokens \subseteq tokens'
  /\ tokens' # tokens =>
       /\ last'.route = "admin.auth" /\ last'.status = 200
       /\ tokens' = tokens \cup {last'.issued}

Rows(t) == IF t = "reviews" THEN reviews ELSE IF t = "contacts" THEN contacts
           ELSE blog_posts

Tables == {"contacts", "reviews", "blog_posts"}

\* this step is the answer of the suspended request r
Answers(r) ==
  /\ r \in InFlight
  /\ inflight' = inflight (-) SetToBag({r})
  /\ last'.pc = "done" /\ last'.route = r.route /\ last'.arg = r.arg
  /\ last'.token = r.token /\ last'.body = r.body /\ last'.idp = r.idp

ContactDeletes == {"admin.contacts.delete", "contact.delete"}

ReviewDeletes == {"admin.reviews.delete", "reviews.delete"}

DeleteRoutes == ContactDeletes \cup ReviewDeletes \cup {"blog.delete"}

\* the table the path of a delete route names
Named(route) == IF route \in ContactDeletes THEN "contacts"
                ELSE IF route \in ReviewDeletes THEN "reviews" ELSE "blog_posts"

\* the ids of a table stay below its counter
C11Ids == \A t \in Tables : \A x \in Rows(t) : x.id < nextId[t]

C11Step ==
  /\ \A t \in Tables : nextId'[t] >= nextId[t]
  /\ reviews' # reviews =>
       \A x \in reviews' : (\A y \in reviews : y.id # x.id) => x.id >= nextId.reviews
  /\ contacts' # contacts =>
       \A x \in contacts' : (\A y \in contacts : y.id # x.id) => x.id >= nextId.contacts
  /\ blog_posts' # blog_posts =>
       \A x \in blog_posts' : (\A y \in blog_posts : y.id # x.id) => x.id >= nextId.blog_posts
  /\ \A r \in InFlight :
       r.route \in DeleteRoutes /\ r.pc = "delete" /\ Answers(r) =>
         LET t == Named(r.route)
             hit == {x \in Rows(t) : x.id = r.arg}
             kept(u) == IF u = "reviews" THEN reviews' = reviews
                        ELSE IF u = "contacts" THEN contacts' = contacts
                        ELSE blog_posts' = blog_posts
             left == IF t = "reviews" THEN reviews' = reviews \ hit
                     ELSE IF t = "contacts" THEN contacts' = contacts \ hit
                     ELSE blog_posts' = blog_posts \ hit
         IN /\ last'.status \in {200, 404, 500}
            /\ nextId' = nextId
            /\ \A u \in Tables \ {t} : kept(u)
            /\ last'.status = 200 => Cardinality(hit) = 1 /\ left
            /\ last'.status = 404 => hit = {} /\ kept(t)
            /\ last'.status = 500 => kept(t)

\* C11: the DELETE of a delete request removes the one row with the id and is
\* answered 200 when the table holds it, and is answered 404 with every table
\* as it was when it does not; an id that left a table never returns to it
\* (ids come from the table's counter, which never goes back), so every later
\* delete of it is answered 404.
C11_DeleteById == []C11Ids /\ [][C11Step]_vars

\* a delete of an id the table once held is answered 404
C11_Witness ==
  /\ last.route \in DeleteRoutes /\ last.status = 404
  /\ last.arg < nextId[Named(last.route)]
  /\ \A x \in Rows(Named(last.route)) : x.id # last.arg

\* the suspended request r takes this step
Moves(r) == r \in InFlight /\ CopiesIn(r, inflight') < CopiesIn(r, inflight)

\* x and y differ in updatedAt at most
SameButUpdatedAt(x, y) == [x EXCEPT !.updatedAt = 0] = [y EXCEPT !.updatedAt = 0]

C12Twice ==
  \A x \in reviews :
    /\ ApprovedRow(ApprovedRow(x)) = ApprovedRow(x)
    /\ x.approved => SameButUpdatedAt(ApprovedRow(x), x)

C12Step ==
  \A r \in InFlight : \A x \in reviews :
    r.route \in ApproveRoutes /\ Moves(r) /\ x.id = r.arg =>
      /\ r.pc = "update" /\ x.approved =>
           \/ Answers(r) /\ last'.status = 500 /\ reviews' = reviews
           \/ /\ last' = last
              /\ \E r2 \in BagToSet(inflight') : r2.pc = "select" /\ r2.arg = r.arg
              /\ \E y \in reviews' :
                   /\ reviews' = (reviews \ {x}) \cup {y}
                   /\ SameButUpdatedAt(x, y) /\ y.updatedAt = now
      /\ r.pc = "select" =>
           /\ Answers(r) /\ reviews' = reviews
           /\ last'.status \in {200, 500}
           /\ last'.status = 200 => last'.rows = <<x>>

\* C12: the UPDATE of an approve request that meets an approved review is not
\* answered 404 and changes of that review only updatedAt; its SELECT then
\* answers 200 with the row the table holds; the UPDATE applied to its own
\* result gives that result again.
C12_ApproveIdempotent == []C12Twice /\ [][C12Step]_vars

\* review 1, approved from the start, was approved again at a later hour
\* and the answer is 200 with its row
C12_Witness ==
  /\ last.route \in ApproveRoutes /\ last.status = 200 /\ last.arg = 1
  /\ last.rows # <<>> /\ last.rows[1] \in reviews
  /\ last.rows[1].approved /\ last.rows[1].updatedAt > last.rows[1].createdAt

TextFields == {"title", "slug", "excerpt", "category", "metaTitle", "metaDescription"}

FlagFields == {"image", "tags", "published", "featured"}

KeptFields == {"id", "views", "authorId", "createdAt"}

\* the body sends the field
Sent(b, f) ==
  IF f \in TextFields THEN b[f] # ""
  ELSE IF f \in FlagFields THEN b[f] # Unsent
  ELSE IF f \in {"content", "readTime"} THEN ~Falsy(b.content)
  ELSE f = "updatedAt"

\* a step of the update request r leaves alone what the body did not send
C13Frame(r) ==
  /\ contacts' = contacts /\ reviews' = reviews /\ nextId' = nextId
  /\ {x.id : x \in blog_posts'} = {x.id : x \in blog_posts}
  /\ \A x \in blog_posts : x.id # r.arg => x \in blog_posts'
  /\ \A x \in blog_posts : \A y \in blog_posts' :
       x.id = r.arg /\ y.id = r.arg =>
         /\ \A f \in KeptFields : y[f] = x[f]
         /\ \A f \in DOMAIN x \ KeptFields : Sent(r.body, f) \/ y[f] = x[f]

Updates == {r \in InFlight : r.route = "blog.update" /\ Moves(r)}

Missing(r) == \A x \in blog_posts : x.id # r.arg

\* C13 (as claimed): an update changes only the fields its body sent, and
\* updatedAt, of the post with the id and nothing else, and is answered 404
\* when no post has the id.
C13_UpdateFrameOr404 ==
  [][\A r \in Updates :
       /\ C13Frame(r)
       /\ Answers(r) /\ Missing(r) /\ last'.status # 500 => last'.status = 404]_vars

\* C14 (as claimed): once the INSERT of a contact or review has completed the
\* 201 is sent without waiting for the mail, so no create request whose row
\* is written is still suspended.
C14_ResponseNotAwaitingMail ==
  \A r \in InFlight : r.route \in CreateRoutes => ~r.wrote /\ r.pc # "mail"

\* the rows a request carries
Carried(r) == {r.rows[i] : i \in 1..Len(r.rows)}

\* the posts the query of a blog list asks for, drafts left out
Asked(q, posts) ==
  {x \in posts :
     /\ x.published
     /\ q.category \in {"", "all"} \/ x.category = q.category
     /\ q.featured # "true" \/ x.featured}

C15Rows ==
  \A r \in Known :
    /\ r.route = "reviews.list" =>
         /\ \A x \in Carried(r) : x.approved /\ x \in r.seen
    /\ r.route = "reviews.admin.list" /\ Gate(r.route, NoToken) = 0 =>
         \A x \in Carried(r) : x.approved
    /\ r.route = "blog.list" =>
         /\ \A x \in Carried(r) : x.published /\ x \in Asked(r.q, r.seen)
         /\ r.pc = "done" /\ r.status = 200 /\ r.stable =>
              r.n = Cardinality(Asked(r.q, r.seen))
    /\ r.route = "blog.slug" => \A x \in Carried(r) : x.published
    /\ r.route = "blog.categories" =>
         \A g \in Carried(r) :
           /\ g.count >= 1
           /\ g.count = Cardinality({x \in r.seen : x.published /\ x.category = g.category})

C15Step ==
  \A r \in InFlight :
    r.route = "blog.slug" /\ r.pc = "lookup" /\ Moves(r)
    /\ (\A x \in blog_posts : x.slug = r.body.slug => ~x.published)
    => Answers(r) /\ last'.status \in {404, 500} /\ last'.rows = <<>>

\* C15 (as claimed): the reviews a GET route without a token carries are
\* approved; the posts GET /api/blog and GET /api/blog/:slug (related posts
\* included) carry are published, the total of GET /api/blog and the counts
\* of the category listing count published posts only, and a fetch by slug
\* that meets no published post of that slug, a draft's slug included, is
\* answered 404.
C15_PublicReadsHideDrafts == []C15Rows /\ [][C15Step]_vars

\* the request arrives in this step: it is answered before its first await,
\* or its handler suspends for the first time
Arrives(r) ==
  \/ inflight' = inflight /\ last' = r /\ last' # last
  \/ last' = last /\ inflight' = inflight (+) SetToBag({r})

Let(r) == r.status \notin {401, 403}

\* the hour login signed the token
IssuedAt(t) == t.exp - TokenTTL

C16Step ==
  \A r \in BagToSet(inflight') \cup {last'} :
    Arrives(r) /\ r.route \in Protected /\ r.token # NoToken =>
      /\ r.token \in tokens /\ now < IssuedAt(r.token) + TokenTTL =>
            /\ Let(r)
            /\ \E a \in admins :
                  r.user = [id |-> a.id, username |-> a.username,
                            email |-> a.email, name |-> a.name]
      /\ r.token \in tokens /\ now >= IssuedAt(r.token) + TokenTTL => r.status = 403
      /\ r.token \notin tokens => r.status = 403

\* C16 (as claimed): on every protected route a token login issued is let
\* through, with the identity of its admin on the request, while fewer than
\* 24 hours have passed since login signed it, and is answered 403 from then
\* on; a token login did not issue is answered 403.
C16_TokenLifetime == [][C16Step]_vars

FiveDigits(s) ==
  /\ s # Undef /\ Len(s) = PostalCodeLen
  /\ \A k \in 1..Len(s) : s[k] \in {"0", "1", "2", "3", "4", "5", "6", "7", "8", "9"}

ContactCreates == {r \in Known : r.route = "contact.create"}

\* C17 (as claimed): every row of contacts has a name, a phone, an email of
\* the shape user@domain.tld and a postal code of exactly 5 digits; a
\* submission that lacks a field, or whose email or postal code is not of
\* that form, is answered 400 and writes no row; a valid one is answered 201
\* with the numeric id of its row (500 when the store fails).
C17_ContactRowsValid ==
  /\ \A x \in contacts :
        /\ x.name # "" /\ x.phone # ""
        /\ emailRegex(x.email)
        /\ FiveDigits(x.postalCode)
  /\ \A r \in ContactCreates :
        /\ ~ValidContactBody(r.body) => ~r.wrote /\ (r.pc = "done" => r.status = 400)
        /\ ValidContactBody(r.body) /\ r.pc = "done" =>
              /\ r.status \in {201, 500}
              /\ r.status = 201 => r.n \in 1..MaxRows /\ r.wrote

\* C18 (as claimed): a request that was answered holds no connection,
\* whichever path its handler took.
C18_NoConnectionHeld == \A r \in Answered : ~r.held

ErrorStatuses == {400, 401, 403, 404, 500}

\* C19 (as claimed): a request answered 400, 401, 403, 404 or 500 has
\* written nothing: no statement of its handler changed a table before the
\* error was answered.
C19_ErrorLeavesStore == \A r \in Answered : r.status \in ErrorStatuses => ~r.wrote

\* C20 (as claimed): an approve answered 200 carries the row of the review
\* with the id it named, with approved = TRUE, in every interleaving.
C20_ApproveCarriesRow ==
  \A r \in Answered :
    r.route \in ApproveRoutes /\ r.status = 200 =>
      /\ Len(r.rows) = 1
      /\ r.rows[1].id = r.arg
      /\ r.rows[1].approved

====
